---- MODULE Spec2Model ----
(***************************************************************************)
(* Model of src/main.py: an HTTP Cloud Function that triggers an Airflow   *)
(* DAG through the Cloud Composer 2 web server.                            *)
(*                                                                         *)
(* Python values are tagged records ([type |-> ..., val |-> ...]) so that  *)
(* str, int, bool, None, list and dict stay distinguishable.  Python       *)
(* exceptions are records [type |-> class name, text |-> str(e)].  A       *)
(* function call that may raise evaluates to [ok |-> TRUE, value |-> v]    *)
(* or [ok |-> FALSE, exc |-> e].                                           *)
(***************************************************************************)
EXTENDS Integers, Sequences, FiniteSets, TLC

VARIABLES
    CREDENTIALS,         \* id of the module-level credentials object
    auth_default_calls,  \* number of google.auth.default() calls so far
    sessions,            \* AuthorizedSession objects created so far, in order
    sent,                \* outbound requests the most recent call put on the wire
    call,                \* the most recent call into the module
    outcome,             \* what the web server did with that call's request
    ret,                 \* what that call returned or raised
    attempts             \* outbound requests issued by that call

vars == <<CREDENTIALS, auth_default_calls, sessions, sent, call, outcome,
          ret, attempts>>

\* Number of sessions after which the process is followed no further.
MaxSessions == 3

(***************************************************************************)
(* Python values                                                           *)
(***************************************************************************)
None == [type |-> "NoneType", val |-> "None"]

PyStr(s) == [type |-> "str", val |-> s]

PyInt(n) == [type |-> "int", val |-> n]

PyBool(b) == [type |-> "bool", val |-> b]

PyList(elems) == [type |-> "list", elems |-> elems]

\* items is a function from a set of keys to values
PyDict(items) == [type |-> "dict", items |-> items]

EmptyItems == [k \in {} |-> None]

\* bool(v)
Truthy(v) ==
    CASE v.type = "NoneType" -> FALSE
      [] v.type = "str"  -> v.val # ""
      [] v.type = "int"  -> v.val # 0
      [] v.type = "bool" -> v.val
      [] v.type = "list" -> Len(v.elems) > 0
      [] v.type = "dict" -> DOMAIN v.items # {}

Digit(d) == CASE d = 0 -> "0" [] d = 1 -> "1" [] d = 2 -> "2" [] d = 3 -> "3"
              [] d = 4 -> "4" [] d = 5 -> "5" [] d = 6 -> "6" [] d = 7 -> "7"
              [] d = 8 -> "8" [] d = 9 -> "9"

RECURSIVE IntToStr(_)
\* str(n) for n >= 0
IntToStr(n) == IF n < 10 THEN Digit(n) ELSE IntToStr(n \div 10) \o Digit(n % 10)

\* sub in s
Contains(s, sub) ==
    \E i \in 1..(Len(s) - Len(sub) + 1) : SubSeq(s, i, i + Len(sub) - 1) = sub

StartsWith(s, prefix) ==
    /\ Len(s) >= Len(prefix)
    /\ SubSeq(s, 1, Len(prefix)) = prefix

\* d.get(key, default) on a dict or MultiDict
Get(d, key, default) ==
    IF key \in DOMAIN d.items THEN d.items[key] ELSE default

Raise(type, text) == [ok |-> FALSE, exc |-> [type |-> type, text |-> text]]

Return(v) == [ok |-> TRUE, value |-> v]

(***************************************************************************)
(* The environment: inbound requests and what the web server answers       *)
(***************************************************************************)
\* request.args, a MultiDict of query parameters
MultiDict(items) == [type |-> "MultiDict", items |-> items]

Item(k, v) == [x \in {k} |-> v]

Items2(k1, v1, k2, v2) == [x \in {k1, k2} |-> IF x = k1 THEN v1 ELSE v2]

\* Raw request bodies: none at all, text that is not JSON, or a JSON text
\* (given by the value it parses to).
NoBody == [kind |-> "absent", value |-> None]

MalformedBody == [kind |-> "malformed", value |-> None]

JsonBody(v) == [kind |-> "json", value |-> v]

Bodies ==
    { NoBody,
      MalformedBody,
      JsonBody(PyDict(EmptyItems)),
      JsonBody(PyDict(Item("bucket", PyStr("b1")))),
      JsonBody(PyDict(Item("file", PyStr("f1")))),
      JsonBody(PyDict(Items2("bucket", PyStr("b1"), "file", PyStr("f1")))),
      JsonBody(PyDict(Items2("bucket", PyInt(7), "other", PyStr("x")))),
      JsonBody(PyDict(Items2("bucket", PyStr(""), "file", None))),
      JsonBody(PyInt(0)),
      JsonBody(PyBool(TRUE)),
      JsonBody(PyList(<<PyStr("b1")>>)),
      JsonBody(PyList(<<>>)),
      JsonBody(PyStr("bucket")) }

QueryArgs ==
    { MultiDict(EmptyItems),
      MultiDict(Item("bucket", PyStr("q1"))),
      MultiDict(Item("file", PyStr(""))),
      MultiDict(Items2("bucket", PyStr("q1"), "file", PyStr("q2"))) }

Methods == {"POST", "GET", "PUT"}

FullBody == JsonBody(PyDict(Items2("bucket", PyStr("b1"), "file", PyStr("f1"))))

FullArgs == MultiDict(Items2("bucket", PyStr("q1"), "file", PyStr("q2")))

\* Every body with and without query parameters under POST, every query
\* string with and without a body under the other methods.
Requests ==
    [method : {"POST"}, body : Bodies, args : {MultiDict(EmptyItems), FullArgs}]
    \cup [method : {"GET"}, body : {NoBody, FullBody}, args : QueryArgs]
    \cup [method : {"PUT"}, body : {FullBody}, args : {MultiDict(EmptyItems), FullArgs}]

Statuses == {200, 201, 302, 403, 404, 503}

\* The reason phrase the server sends with a status line.
Reason(status) ==
    CASE status = 200 -> "OK"
      [] status = 201 -> "Created"
      [] status = 204 -> "No Content"
      [] status = 302 -> "Found"
      [] status = 401 -> "Unauthorized"
      [] status = 403 -> "Forbidden"
      [] status = 404 -> "Not Found"
      [] status = 500 -> "Internal Server Error"
      [] status = 503 -> "Service Unavailable"

Texts == {"", "run-1"}

\* Response headers, as a sequence of <<name, value>>
HeaderSets == {<<>>, <<<<"Content-Type", "application/json">>>>}

\* The transport either delivers a response or fails.
Answered(status, headers, text) ==
    [kind |-> "response", status_code |-> status, reason |-> Reason(status),
     headers |-> headers, text |-> text]

Failed(type, text) == [kind |-> "failure", exc |-> [type |-> type, text |-> text]]

NoReply == [kind |-> "none"]

Replies ==
    { Answered(s, h, t) : s \in {200, 403}, h \in HeaderSets, t \in Texts }
    \cup { Answered(s, <<>>, t) : s \in Statuses \ {200, 403}, t \in Texts }
    \cup { Failed("ReadTimeout", "Read timed out. (read timeout=90)"),
           Failed("ConnectionError", "Connection refused") }

(***************************************************************************)
(* src/main.py                                                             *)
(***************************************************************************)
AUTH_SCOPE == "https://www.googleapis.com/auth/cloud-platform"

\* google.auth.default(scopes=[AUTH_SCOPE]): the n-th credentials object
\* acquired by the process
google_auth_default(n) == [id |-> n, scopes |-> <<AUTH_SCOPE>>]

DefaultTimeout == 90

\* AuthorizedSession(credentials)
AuthorizedSession(credentials) == [credentials |-> credentials]

SetDefaultTimeout_Overwrite(kwargs) ==
    [k \in DOMAIN kwargs \cup {"timeout"} |->
        IF k = "timeout" THEN PyInt(DefaultTimeout) ELSE kwargs[k]]

\* if "timeout" not in kwargs: kwargs["timeout"] = 90
SetDefaultTimeout(kwargs) ==
    IF "timeout" \in DOMAIN kwargs
    THEN kwargs
    ELSE [k \in DOMAIN kwargs \cup {"timeout"} |->
            IF k = "timeout" THEN PyInt(DefaultTimeout) ELSE kwargs[k]]

\* authed_session.request(method, url, **kwargs): the request as it goes
\* out, authorised by the session's credentials
WireRequest(session, method, url, kwargs) ==
    [method |-> method, url |-> url, kwargs |-> kwargs,
     credentials |-> session.credentials]

\* What authed_session.request gives back when the transport answers reply.
Respond(url, reply) ==
    IF reply.kind = "failure"
    THEN [ok |-> FALSE, exc |-> reply.exc]
    ELSE Return([status_code |-> reply.status_code, reason |-> reply.reason,
                 headers |-> reply.headers, text |-> reply.text, url |-> url])

make_composer2_web_server_request_Reacquire(url, method, kwargs, reply) ==
    LET authed_session ==
            AuthorizedSession(google_auth_default(auth_default_calls + 1))
        kw == SetDefaultTimeout(kwargs)
    IN  [sessions |-> <<authed_session>>,
         sent |-> <<WireRequest(authed_session, method, url, kw)>>,
         acquired |-> 1,
         result |-> Respond(url, reply)]

\* A call's effects: the sessions it created, the requests it sent, the
\* credentials it acquired, and its result.
make_composer2_web_server_request(url, method, kwargs, reply) ==
    LET authed_session == AuthorizedSession(CREDENTIALS)
        kw == SetDefaultTimeout(kwargs)
    IN  [sessions |-> <<authed_session>>,
         sent |-> <<WireRequest(authed_session, method, url, kw)>>,
         acquired |-> 0,
         result |-> Respond(url, reply)]

RECURSIVE HeadersBody(_)
HeadersBody(h) ==
    IF Len(h) = 0 THEN ""
    ELSE "'" \o h[1][1] \o "': '" \o h[1][2] \o "'"
         \o (IF Len(h) > 1 THEN ", " ELSE "") \o HeadersBody(Tail(h))

\* f"{response.headers}"
HeadersStr(h) == "{" \o HeadersBody(h) \o "}"

\* response.raise_for_status()
raise_for_status(response) ==
    IF response.status_code >= 400 /\ response.status_code < 500
    THEN Raise("HTTPError", IntToStr(response.status_code) \o " Client Error: "
                            \o response.reason \o " for url: " \o response.url)
    ELSE IF response.status_code >= 500 /\ response.status_code < 600
    THEN Raise("HTTPError", IntToStr(response.status_code) \o " Server Error: "
                            \o response.reason \o " for url: " \o response.url)
    ELSE Return(None)

PermissionText ==
    "You do not have a permission to perform this operation. "
    \o "Check Airflow RBAC roles for your account."

Classify_NoReturn(response) ==
    IF response.status_code = 403
    THEN Raise("HTTPError", PermissionText \o HeadersStr(response.headers)
                            \o " / " \o response.text)
    ELSE IF response.status_code # 200
    THEN LET r == raise_for_status(response)
         IN  IF r.ok THEN Return(None) ELSE r
    ELSE Return(None)

Classify_No403Branch(response) ==
    IF response.status_code # 200
    THEN LET r == raise_for_status(response)
         IN  IF r.ok THEN Return(None) ELSE r
    ELSE Return(PyStr(response.text))

\* The if/elif/else on response.status_code
Classify(response) ==
    IF response.status_code = 403
    THEN Raise("HTTPError", PermissionText \o HeadersStr(response.headers)
                            \o " / " \o response.text)
    ELSE IF response.status_code # 200
    THEN LET r == raise_for_status(response)
         IN  IF r.ok THEN Return(None) ELSE r
    ELSE Return(PyStr(response.text))

RequestUrl(base_url, dag) ==
    LET endpoint == "api/v1/dags/" \o dag \o "/dagRuns"
    IN  base_url \o "/" \o endpoint

trigger_dag_Retry(base_url, dag, data, reply) ==
    LET request_url == RequestUrl(base_url, dag)
        json_data == PyDict(Item("conf", data))
        r == make_composer2_web_server_request(
                 request_url, "POST", Item("json", json_data), reply)
        again == reply.kind = "failure" \/ reply.status_code >= 500
    IN  [sessions |-> IF again THEN r.sessions \o r.sessions ELSE r.sessions,
         sent |-> IF again THEN r.sent \o r.sent ELSE r.sent,
         acquired |-> r.acquired,
         result |-> IF r.result.ok THEN Classify(r.result.value) ELSE r.result]

trigger_dag(base_url, dag, data, reply) ==
    LET request_url == RequestUrl(base_url, dag)
        json_data == PyDict(Item("conf", data))
        r == make_composer2_web_server_request(
                 request_url, "POST", Item("json", json_data), reply)
    IN  IF r.result.ok
        THEN [r EXCEPT !.result = Classify(r.result.value)]
        ELSE r

DefaultBucket == "YOUR-BUCKET-NAME"

DefaultFile == "INPUT-PATH-TO-FILE"

web_server_url == "YOUR-WEB-SERVER-URL"

dag_id == "gcs_dataflow_bigquery_official"

\* request.get_json(silent=...): the parsed value; without a body that
\* parses, None when silent and a 400 Bad Request otherwise
get_json(request, silent) ==
    IF request.body.kind = "json" THEN Return(request.body.value)
    ELSE IF silent THEN Return(None)
    ELSE Raise("BadRequest", "400 Bad Request: Failed to decode JSON object")

ParseBody_NotSilent(request) == get_json(request, FALSE)

\* request_json = request.get_json(silent=True)
ParseBody(request) == get_json(request, TRUE)

ExtractParams_ArgsFirst(request) ==
    Return([bucket |-> Get(request.args, "bucket", PyStr("YOUR-BUCKET-NAME")),
            file_path |-> Get(request.args, "file", PyStr("INPUT-PATH-TO-FILE"))])

\* The if/else that reads bucket and file_path off the request
ExtractParams(request) ==
    IF request.method = "POST"
    THEN LET parsed == ParseBody(request)
         IN  IF ~parsed.ok THEN parsed
             ELSE LET request_json == parsed.value
                  IN  IF Truthy(request_json)
                      THEN IF request_json.type = "dict"
                           THEN Return([bucket |-> Get(request_json, "bucket",
                                                       PyStr(DefaultBucket)),
                                        file_path |-> Get(request_json, "file",
                                                          PyStr(DefaultFile))])
                           ELSE Raise("AttributeError",
                                      "'" \o request_json.type
                                      \o "' object has no attribute 'get'")
                      ELSE Return([bucket |-> PyStr(DefaultBucket),
                                   file_path |-> PyStr(DefaultFile)])
    ELSE Return([bucket |-> Get(request.args, "bucket", PyStr(DefaultBucket)),
                 file_path |-> Get(request.args, "file", PyStr(DefaultFile))])

DagConf(bucket, file_path) == PyDict(Items2("bucket", bucket, "file", file_path))

SuccessResponse(dag_conf, response_text) ==
    [body |-> [status |-> "success",
               message |-> "DAG triggered successfully",
               dag_id |-> dag_id,
               dag_conf |-> dag_conf,
               response |-> response_text]]

ErrorResponse(e) ==
    [body |-> [status |-> "error",
               message |-> "Failed to trigger DAG: " \o e.text],
     status_code |-> 500]

NoEffects(result) ==
    [sessions |-> <<>>, sent |-> <<>>, acquired |-> 0, result |-> result]

trigger_dag_gcf_ParamsOutsideTry(request, reply) ==
    LET p == ExtractParams(request)
    IN  IF ~p.ok
        THEN NoEffects(p)
        ELSE LET dag_conf == DagConf(p.value.bucket, p.value.file_path)
                 t == trigger_dag(web_server_url, dag_id, dag_conf, reply)
             IN  [t EXCEPT !.result =
                     IF t.result.ok
                     THEN Return(SuccessResponse(dag_conf, t.result.value))
                     ELSE Return(ErrorResponse(t.result.exc))]

\* The handler: the try block, and the except that turns any exception
\* into the error response
trigger_dag_gcf(request, reply) ==
    LET p == ExtractParams(request)
    IN  IF ~p.ok
        THEN NoEffects(Return(ErrorResponse(p.exc)))
        ELSE LET dag_conf == DagConf(p.value.bucket, p.value.file_path)
                 t == trigger_dag(web_server_url, dag_id, dag_conf, reply)
             IN  [t EXCEPT !.result =
                     IF t.result.ok
                     THEN Return(SuccessResponse(dag_conf, t.result.value))
                     ELSE Return(ErrorResponse(t.result.exc))]

(***************************************************************************)
(* The state machine: calls into the module, one action per entry point    *)
(***************************************************************************)
NoCall == [fn |-> "none"]

Init ==
    /\ CREDENTIALS = google_auth_default(1)
    /\ auth_default_calls = 1
    /\ sessions = <<>>
    /\ sent = <<>>
    /\ call = NoCall
    /\ outcome = NoReply
    /\ ret = Return(None)
    /\ attempts = 0

\* What a call with effects e leaves behind.
Effects(reply, e) ==
    /\ outcome' = IF Len(e.sent) = 0 THEN NoReply ELSE reply
    /\ ret' = e.result
    /\ attempts' = Len(e.sent)
    /\ sent' = e.sent
    /\ sessions' = sessions \o e.sessions
    /\ auth_default_calls' = auth_default_calls + e.acquired
    /\ UNCHANGED CREDENTIALS

\* The functions framework delivers one inbound HTTP request.
Handle ==
    /\ Len(sessions) < MaxSessions
    /\ \E request \in Requests, reply \in Replies :
        /\ call' = [fn |-> "trigger_dag_gcf", request |-> request]
        /\ Effects(reply, trigger_dag_gcf(request, reply))

DirectUrls == {"https://composer.example"}

DirectDags == {"d1", "d2"}

DirectData == {PyDict(EmptyItems), PyDict(Item("k", PyStr("v")))}

DirectReplies ==
    { Answered(200, <<>>, "run-1"), Answered(201, <<>>, "run-1"),
      Answered(403, <<>>, ""), Answered(404, <<>>, ""),
      Failed("ConnectionError", "Connection refused") }

\* trigger_dag called by other code of the process.
CallTriggerDag ==
    /\ Len(sessions) < MaxSessions
    /\ \E u \in DirectUrls, d \in DirectDags, data \in DirectData,
          reply \in DirectReplies :
        /\ call' = [fn |-> "trigger_dag", web_server_url |-> u, dag_id |-> d,
                    data |-> data]
        /\ Effects(reply, trigger_dag(u, d, data, reply))

DirectKwargs ==
    { [k \in {} |-> None],
      Item("timeout", PyInt(30)),
      Item("timeout", None),
      Item("headers", PyDict(Item("Accept", PyStr("*/*")))),
      Items2("timeout", PyInt(5), "json", PyDict(EmptyItems)) }

\* make_composer2_web_server_request called by other code of the process.
CallMakeRequest ==
    /\ Len(sessions) < MaxSessions
    /\ \E u \in DirectUrls, m \in {"GET", "POST"}, kw \in DirectKwargs,
          reply \in DirectReplies :
        /\ call' = [fn |-> "make_composer2_web_server_request", url |-> u,
                    method |-> m, kwargs |-> kw]
        /\ Effects(reply, make_composer2_web_server_request(u, m, kw, reply))

Next == Handle \/ CallTriggerDag \/ CallMakeRequest

Spec == Init /\ [][Next]_vars

(***************************************************************************)
(* Properties                                                              *)
(***************************************************************************)
Handled == call.fn = "trigger_dag_gcf"

\* The last call was the handler and the web server answered with status s.
HandledStatus(s) ==
    /\ Handled
    /\ outcome.kind = "response"
    /\ outcome.status_code = s

ErrorPrefix == "Failed to trigger DAG: "

\* The handler returned ({status: "error", message: ...}, 500).
IsErrorPair(r) ==
    /\ r.ok
    /\ DOMAIN r.value = {"body", "status_code"}
    /\ r.value.status_code = 500
    /\ DOMAIN r.value.body = {"status", "message"}
    /\ r.value.body.status = "error"
    /\ StartsWith(r.value.body.message, ErrorPrefix)

\* The handler returned the success object, with no status code attached.
IsSuccessObject(r) ==
    /\ r.ok
    /\ DOMAIN r.value = {"body"}
    /\ DOMAIN r.value.body = {"status", "message", "dag_id", "dag_conf", "response"}
    /\ r.value.body.status = "success"

\* The configuration payload of the one request on the wire.
SentConf == sent[1].kwargs["json"].items["conf"]

\* C1: for every outbound status other than 200 and 403, 2xx and 3xx
\* included, the handler returns the error pair with HTTP 500 and never
\* status "success".
C1_NonOkStatusIsError ==
    (Handled /\ outcome.kind = "response" /\ outcome.status_code \notin {200, 403})
        => IsErrorPair(ret)

\* C2: on outbound status 200 the handler returns, with no status code
\* attached, status "success", the fixed dag_id, the {bucket, file} payload
\* that was sent, and the response body text unmodified.
C2_OkStatusIsSuccess ==
    HandledStatus(200) =>
        /\ IsSuccessObject(ret)
        /\ ret.value.body.dag_id = "gcs_dataflow_bigquery_official"
        /\ Len(sent) = 1
        /\ ret.value.body.dag_conf = SentConf
        /\ ret.value.body.dag_conf.type = "dict"
        /\ DOMAIN ret.value.body.dag_conf.items = {"bucket", "file"}
        /\ ret.value.body.response = PyStr(outcome.text)

C2_Witness ==
    /\ HandledStatus(200)
    /\ outcome.text = "run-1"
    /\ ret.value.body.response = PyStr("run-1")
    /\ SentConf.items["bucket"] = PyStr("b1")

\* C3: on outbound status 403 the handler returns the error pair with HTTP
\* 500; the message is the permission text followed by the raw response
\* headers and body text, not the text raise_for_status would give.
C3_ForbiddenIsPermissionError ==
    HandledStatus(403) =>
        /\ IsErrorPair(ret)
        /\ Contains(ret.value.body.message, "permission")
        /\ ret.value.body.message =
              ErrorPrefix
              \o "You do not have a permission to perform this operation. "
              \o "Check Airflow RBAC roles for your account."
              \o HeadersStr(outcome.headers) \o " / " \o outcome.text
        /\ ~Contains(ret.value.body.message, "Client Error")

C3_Witness ==
    /\ HandledStatus(403)
    /\ outcome.text = "run-1"
    /\ Len(outcome.headers) = 1
    /\ Contains(ret.value.body.message,
                "{'Content-Type': 'application/json'} / run-1")

\* C4: the payload handed to trigger_dag is exactly {bucket: b, file: f};
\* for a POST whose JSON object body has both fields b and f are the body's
\* values whatever the query string, for any other method they are the
\* query parameters whatever the body.
C4_PayloadFromBodyOrQuery ==
    Handled =>
        LET rq == call.request
            js == rq.body.value
        IN  /\ (/\ rq.method = "POST"
                /\ rq.body.kind = "json"
                /\ js.type = "dict"
                /\ {"bucket", "file"} \subseteq DOMAIN js.items)
               => /\ Len(sent) = 1
                  /\ SentConf = PyDict(Items2("bucket", js.items["bucket"],
                                              "file", js.items["file"]))
            /\ (rq.method # "POST")
               => /\ Len(sent) = 1
                  /\ SentConf.type = "dict"
                  /\ DOMAIN SentConf.items = {"bucket", "file"}
                  /\ \A k \in DOMAIN rq.args.items :
                        SentConf.items[k] = rq.args.items[k]
                  /\ "bucket" \notin DOMAIN rq.args.items
                        => SentConf.items["bucket"] = PyStr("YOUR-BUCKET-NAME")
                  /\ "file" \notin DOMAIN rq.args.items
                        => SentConf.items["file"] = PyStr("INPUT-PATH-TO-FILE")

C4_Witness ==
    /\ Handled
    /\ call.request.method = "POST"
    /\ call.request.body = FullBody
    /\ call.request.args = FullArgs
    /\ SentConf = PyDict(Items2("bucket", PyStr("b1"), "file", PyStr("f1")))

\* The source the handler reads for the request's method: the parsed JSON
\* body under POST (None without a body that parses), the query string
\* under any other method.
SourceRead(rq) ==
    IF rq.method = "POST"
    THEN (IF rq.body.kind = "json" THEN rq.body.value ELSE None)
    ELSE rq.args

\* Whether the source holds the parameter under key k.
Supplies(src, k) ==
    /\ src.type \in {"dict", "MultiDict"}
    /\ k \in DOMAIN src.items

\* C5: whenever bucket and/or file is missing from the source read for the
\* method, the handler goes on with the default for each missing parameter
\* and the supplied value for each present one.
C5_MissingTakesDefault ==
    Handled =>
        LET src == SourceRead(call.request)
        IN  (~Supplies(src, "bucket") \/ ~Supplies(src, "file"))
            => /\ Len(sent) = 1
               /\ SentConf.items["bucket"] =
                     IF Supplies(src, "bucket") THEN src.items["bucket"]
                     ELSE PyStr("YOUR-BUCKET-NAME")
               /\ SentConf.items["file"] =
                     IF Supplies(src, "file") THEN src.items["file"]
                     ELSE PyStr("INPUT-PATH-TO-FILE")

\* C6: a POST whose body is malformed JSON raises no parse error; the
\* handler goes on to call trigger_dag with both defaults.
C6_MalformedBodyFallsThrough ==
    (Handled /\ call.request.method = "POST"
             /\ call.request.body.kind = "malformed")
        => /\ Len(sent) = 1
           /\ SentConf = PyDict(Items2("bucket", PyStr("YOUR-BUCKET-NAME"),
                                       "file", PyStr("INPUT-PATH-TO-FILE")))
           /\ ret.ok
           /\ (outcome.kind = "response" /\ outcome.status_code = 200)
                 => IsSuccessObject(ret)
           /\ ~Contains(ret.value.body.message, "JSON")

C6_Witness ==
    /\ HandledStatus(200)
    /\ call.request.method = "POST"
    /\ call.request.body = MalformedBody
    /\ call.request.args = FullArgs
    /\ IsSuccessObject(ret)
    /\ SentConf.items["bucket"] = PyStr("YOUR-BUCKET-NAME")

\* C7: no exception escapes the handler: it returns the success object or
\* the pair ({status: "error", message: "Failed to trigger DAG: <exception
\* text>"}, 500), whatever the request and whatever the outbound call did.
C7_NoExceptionEscapes ==
    Handled =>
        /\ ret.ok
        /\ IsSuccessObject(ret) \/ IsErrorPair(ret)
        /\ outcome.kind = "failure"
              => /\ IsErrorPair(ret)
                 /\ ret.value.body.message = ErrorPrefix \o outcome.exc.text
        /\ outcome.kind = "none"
              => /\ IsErrorPair(ret)
                 /\ attempts = 0
        /\ (outcome.kind = "response" /\ outcome.status_code >= 400)
              => IsErrorPair(ret)

C7_Witness ==
    /\ Handled
    /\ call.request.method = "POST"
    /\ call.request.body = JsonBody(PyList(<<PyStr("b1")>>))
    /\ IsErrorPair(ret)
    /\ ret.value.body.message =
          "Failed to trigger DAG: 'list' object has no attribute 'get'"

\* C8: the process acquires credentials once, at module load; every
\* session and every outbound request uses that one object, and each
\* outbound request gets a session of its own.
C8_CredentialsOnce ==
    /\ [](/\ auth_default_calls = 1
          /\ CREDENTIALS = google_auth_default(1)
          /\ \A i \in 1..Len(sessions) : sessions[i].credentials = CREDENTIALS
          /\ \A i \in 1..Len(sent) : sent[i].credentials = CREDENTIALS)
    /\ [][/\ CREDENTIALS' = CREDENTIALS
          /\ Len(sessions') = Len(sessions) + Len(sent')]_vars

C8_Witness ==
    /\ Len(sessions) = 3
    /\ Handled
    /\ Len(sent) = 1
    /\ sent[1].credentials = sessions[1].credentials
    /\ auth_default_calls = 1

\* C9: an invocation of the handler issues at most one outbound request,
\* exactly one when parameter extraction succeeds, whatever status or
\* transport failure comes back.
C9_SingleAttempt ==
    Handled =>
        /\ attempts = Len(sent)
        /\ attempts <= 1
        /\ attempts = 1 <=> ExtractParams(call.request).ok

C9_Witness ==
    /\ HandledStatus(503)
    /\ attempts = 1
    /\ IsErrorPair(ret)

\* C10: every request trigger_dag issues is a POST to
\* base_url/api/v1/dags/dag_id/dagRuns with JSON body {"conf": data} and
\* timeout 90; make_composer2_web_server_request adds timeout 90 only when
\* the caller gave none and leaves everything else as given.
C10_OutboundShape ==
    /\ call.fn = "trigger_dag" =>
          /\ Len(sent) = 1
          /\ sent[1].method = "POST"
          /\ sent[1].url = call.web_server_url \o "/api/v1/dags/"
                           \o call.dag_id \o "/dagRuns"
          /\ sent[1].kwargs = Items2("json", PyDict(Item("conf", call.data)),
                                     "timeout", PyInt(90))
    /\ (Handled /\ attempts > 0) =>
          /\ sent[1].method = "POST"
          /\ sent[1].url =
                "YOUR-WEB-SERVER-URL/api/v1/dags/gcs_dataflow_bigquery_official/dagRuns"
          /\ DOMAIN sent[1].kwargs = {"json", "timeout"}
          /\ sent[1].kwargs["timeout"] = PyInt(90)
          /\ DOMAIN sent[1].kwargs["json"].items = {"conf"}
    /\ call.fn = "make_composer2_web_server_request" =>
          /\ Len(sent) = 1
          /\ sent[1].method = call.method
          /\ sent[1].url = call.url
          /\ \A k \in DOMAIN call.kwargs : sent[1].kwargs[k] = call.kwargs[k]
          /\ DOMAIN sent[1].kwargs = DOMAIN call.kwargs \cup {"timeout"}
          /\ "timeout" \notin DOMAIN call.kwargs
                => sent[1].kwargs["timeout"] = PyInt(90)

C10_Witness ==
    /\ call.fn = "make_composer2_web_server_request"
    /\ call.kwargs = Item("timeout", PyInt(30))
    /\ sent[1].kwargs["timeout"] = PyInt(30)

====
